---- MODULE Spec2Model ----
(***************************************************************************)
(* A model of the repo card of github-readme-stats-plus:                   *)
(*   src/src/cards/repo.js   renderRepoCard, getAnimationStyle,            *)
(*                           wrapTextInWave, getBadgeSVG, formatAge        *)
(*   src/unnamed/part_004    the /api/pin handler (options it passes on)   *)
(*                                                                         *)
(* Text is modelled structurally.  A header is a sequence of one-character *)
(* strings.  A description is a sequence of words, a word being `len`      *)
(* copies of the character `c`.  An optional JavaScript value (an option   *)
(* or a record field that may be undefined) is the empty set when it is    *)
(* undefined and the singleton of its value otherwise.  Markup is kept as  *)
(* records and sequences of the elements the template strings emit.        *)
(***************************************************************************)
EXTENDS Integers, Sequences, FiniteSets, TLC

VARIABLES
  pc,       \* "call": renderRepoCard is about to be called directly;
            \* "request": the pin handler is about to run; "fetching": it
            \* awaits fetchRepo; "returned", "responded": the call is over
  query,    \* req.query of the pin request (NoQuery for a direct call)
  config,   \* the deployment: whitelist, blacklist, available locales
  github,   \* what the fetch of the repository will yield
  res,      \* the response: the headers set and the bodies sent
  repo,     \* the RepositoryData record passed to renderRepoCard
  options,  \* the options bag passed to renderRepoCard
  now,      \* what Date.now() returns, as [s |-> seconds, ms |-> 0..999]
  seed,     \* the state of Math.random()
  out,      \* what renderRepoCard returned (NoOutput before the call)
  calls     \* how often the request called fetchRepo and fetchRepo the retryer

vars == <<pc, query, config, github, res, repo, options, now, seed, out, calls>>

----------------------------------------------------------------------------
(* Optional values *)

Absent == {}
Some(x) == {x}
IsSet(o) == o # {}
Val(o) == CHOOSE x \in o : TRUE
\* A destructuring default: `name = d` takes d exactly when the value is undefined.
OrDefault(o, d) == IF o = {} THEN d ELSE Val(o)
\* JavaScript truthiness of an optional boolean.
Truthy(o) == o = {TRUE}

Max(a, b) == IF a >= b THEN a ELSE b
Min(a, b) == IF a <= b THEN a ELSE b

----------------------------------------------------------------------------
(* Program constants *)

ICON_SIZE == 16
DESCRIPTION_LINE_WIDTH == 59
DESCRIPTION_MAX_LINES == 3
lineHeight == 10
HEADER_MAX == 35
CARD_WIDTH == 400
COMPACT_PADDING == 12
BASE_HEIGHT == 110
MULTILINE_BASE_HEIGHT == 120
HIDDEN_TITLE_ALLOWANCE == 30
COMPACT_PADDING_X == 25
STAT_FONT_SIZE == 12

----------------------------------------------------------------------------
(* Bounds of the model *)

\* The longest repository name tried (HEADER_MAX = 35 is the cut).
MaxNameLen == 37
\* The largest and smallest description_lines_count tried are MaxLinesAsked and -1.
MaxLinesAsked == 4
\* The number of 30-character words of the longest description tried.
MaxWords == 7
\* The seeds tried for Math.random() are 0..MaxSeed.
MaxSeed == 1

----------------------------------------------------------------------------
(* Text helpers: src/common/html.js, src/common/ops.js, src/common/fmt.js   *)
(* are not among the source files; they are modelled from their use in     *)
(* repo.js and from the specification.                                     *)

\* encodeHTML on one character: the markup-significant characters become
\* numeric entities, every other character is kept.
encodeChar(c) ==
  CASE c = "<" -> "&#60;"
    [] c = ">" -> "&#62;"
    [] c = "&" -> "&#38;"
    [] OTHER -> c

\* encodeHTML on a header (a sequence of characters).
encodeHTML(text) == [i \in 1..Len(text) |-> encodeChar(text[i])]

\* encodeHTML on a description line (a sequence of words).
encodeLine(line) ==
  [words |-> [i \in 1..Len(line.words) |->
                [len |-> line.words[i].len, c |-> encodeChar(line.words[i].c)]],
   ellipsis |-> line.ellipsis]

\* parseEmojis: a ":shortcode:" word becomes the one emoji character.
parseEmojis(words) ==
  [i \in 1..Len(words) |->
     IF words[i].c = ":" THEN [len |-> 1, c |-> "emoji"] ELSE words[i]]

\* clampValue(number, min, max).
clampValue(n, lo, hi) == Max(lo, Min(n, hi))

\* The number of characters of a line of words joined by single spaces.
RECURSIVE lineLength(_)
lineLength(ws) ==
  IF ws = <<>> THEN 0
  ELSE Head(ws).len + (IF Len(ws) > 1 THEN 1 ELSE 0) + lineLength(Tail(ws))

\* Greedy word wrap: a word joins the current line while the line stays
\* within `width` characters; a word longer than `width` stands alone.
RECURSIVE greedyWrap(_, _, _, _)
greedyWrap(ws, cur, acc, width) ==
  IF ws = <<>> THEN (IF cur = <<>> THEN acc ELSE Append(acc, cur))
  ELSE LET w == Head(ws) IN
       IF cur = <<>> THEN greedyWrap(Tail(ws), <<w>>, acc, width)
       ELSE IF lineLength(cur) + 1 + w.len <= width
            THEN greedyWrap(Tail(ws), Append(cur, w), acc, width)
            ELSE greedyWrap(Tail(ws), <<w>>, Append(acc, cur), width)

\* wrapTextMultiline(text, width, maxLines): at most maxLines lines, the last
\* one marked with an ellipsis when lines were dropped.
wrapTextMultiline(words, width, maxLines) ==
  LET all == greedyWrap(words, <<>>, <<>>, width)
      kept == Min(Len(all), maxLines)
  IN [i \in 1..kept |->
        [words |-> all[i],
         ellipsis |-> (Len(all) > maxLines /\ i = maxLines)]]

----------------------------------------------------------------------------
(* Math.random(): a draw is k/RAND_DENOM for k in 0..RAND_DENOM-1, so every  *)
(* draw lies in [0, 1).  The generator's state is `seed`; the n-th draw      *)
(* after state s is Rand(s, n).                                              *)

RAND_DENOM == 10
RAND_STEP == 3
Rand(s, n) == (s + RAND_STEP * n) % RAND_DENOM

----------------------------------------------------------------------------
(* getAnimationStyle, repo.js lines 58-458 *)

EmptyCss == [keyframes |-> {}, rules |-> {}, waveSpeed |-> 0, waveAmplitude |-> 0]
EmptySvg == [layer |-> FALSE, defs |-> {}, shapes |-> <<>>]
NoAnimation == [css |-> EmptyCss, svg |-> EmptySvg, draws |-> 0]

\* A shape of the animation layer.  `parts` counts the strokes drawn inside a
\* group (tentacles, spark lines); `geo` holds the coordinates that depend on
\* the card size or on random draws, as scaled integers.
Shape(cls, i, parts, geo) == [cls |-> cls, i |-> i, parts |-> parts, geo |-> geo]

\* case "bubbles", lines 72-254
bubblesStyle(width, height, waveParams) ==
  LET waveSpeed == IF waveParams.speed # 0 THEN waveParams.speed ELSE 2
      waveAmplitude == IF waveParams.amplitude # 0 THEN waveParams.amplitude ELSE 3
      bubbles == [k \in 1..8 |->
                   Shape("bubble", k - 1, 0,
                         [x10 |-> (width * k * 10) \div 9, y100 |-> height * 100,
                          size10 |-> (3 + ((k - 1) % 3) * 2) * 10, rot |-> 0])]
      jellyfish == [k \in 1..2 |->
                     Shape("jellyfish", k - 1, 6,
                           [x10 |-> 0, y100 |-> height * 30 + (k - 1) * height * 25,
                            size10 |-> (12 + (k - 1) * 3) * 10, rot |-> 0])]
      starfish == [k \in 1..2 |->
                    Shape("starfish", k - 1, 0,
                          [x10 |-> (width + 50) * 10,
                           y100 |-> height * 50 + (k - 1) * height * 20,
                           size10 |-> (8 + (k - 1) * 2) * 10, rot |-> 0])]
  IN [css |-> [keyframes |-> {"bubbleFloat", "jellyfishPulse", "tentacleWave",
                              "starfishDrift", "letterWave", "colorMorph"},
               rules |-> {".bubble", ".jellyfish", ".tentacle", ".starfish",
                          ".wave-char", ".wave-char-morph"},
               waveSpeed |-> waveSpeed, waveAmplitude |-> waveAmplitude],
      svg |-> [layer |-> TRUE, defs |-> {"jellyfish-glow"},
               shapes |-> jellyfish \o starfish \o bubbles],
      draws |-> 0]

\* The mutant of embersStyle: the number of embers follows the card's height.
embersStyleByHeight(width, height, s) ==
  LET embers == [k \in 1..(height \div 10) |->
                  Shape("ember", k - 1, 0,
                        [x10 |-> 100 + Rand(s, 3 * (k - 1)) * (width - 20),
                         y100 |-> height * 20 + Rand(s, 3 * (k - 1) + 1) * height * 6,
                         size10 |-> 15 + Rand(s, 3 * (k - 1) + 2) * 2,
                         rot |-> 0])]
  IN [css |-> [keyframes |-> {"emberGlow", "emberFloat"}, rules |-> {".ember"},
               waveSpeed |-> 0, waveAmplitude |-> 0],
      svg |-> [layer |-> TRUE, defs |-> {}, shapes |-> embers],
      draws |-> 3 * (height \div 10)]

\* case "embers", lines 256-291: three draws per ember, in the order x, y,
\* size: x = 10 + r * (width - 20), y = height * 0.2 + r * (height * 0.6),
\* size = 1.5 + r * 2, with r = Rand / RAND_DENOM, in tenths (x, size) and
\* hundredths (y).
embersStyle(width, height, s) ==
  LET embers == [k \in 1..12 |->
                  Shape("ember", k - 1, 0,
                        [x10 |-> (100 * RAND_DENOM
                                  + Rand(s, 3 * (k - 1)) * (width - 20) * 10) \div RAND_DENOM,
                         y100 |-> (height * 20 * RAND_DENOM
                                   + Rand(s, 3 * (k - 1) + 1) * height * 60) \div RAND_DENOM,
                         size10 |-> (15 * RAND_DENOM
                                     + Rand(s, 3 * (k - 1) + 2) * 20) \div RAND_DENOM,
                         rot |-> 0])]
  IN [css |-> [keyframes |-> {"emberGlow", "emberFloat"}, rules |-> {".ember"},
               waveSpeed |-> 0, waveAmplitude |-> 0],
      svg |-> [layer |-> TRUE, defs |-> {}, shapes |-> embers],
      draws |-> 36]

\* case "radiant", lines 293-346
radiantStyle(width, height) ==
  LET rays == [k \in 1..16 |->
                Shape("ray", k - 1, 0,
                      [x10 |-> width * 5, y100 |-> height * 50, size10 |-> 800,
                       rot |-> ((k - 1) * 3600) \div 16])]
      core == Shape("radiant-core", 0, 0,
                    [x10 |-> width * 5, y100 |-> height * 50, size10 |-> 80, rot |-> 0])
  IN [css |-> [keyframes |-> {"rayPulse", "corePulse"},
               rules |-> {".ray", ".radiant-core"},
               waveSpeed |-> 0, waveAmplitude |-> 0],
      svg |-> [layer |-> TRUE, defs |-> {}, shapes |-> Append(rays, core)],
      draws |-> 0]

\* case "circuit", lines 348-422
circuitStyle(width, height) ==
  LET dots == [k \in 1..6 |->
                Shape("circuit-dot", k - 1, 0,
                      [x10 |-> (width - 5) * 10, y100 |-> (height - 5) * 100,
                       size10 |-> 30, rot |-> 0])]
      trail == << Shape("circuit-glow-top", 0, 0,
                        [x10 |-> 50, y100 |-> 500, size10 |-> (width - 10) * 10, rot |-> 0]),
                  Shape("circuit-glow-right", 0, 0,
                        [x10 |-> (width - 6) * 10, y100 |-> 500,
                         size10 |-> (height - 10) * 10, rot |-> 0]),
                  Shape("circuit-glow-bottom", 0, 0,
                        [x10 |-> 50, y100 |-> (height - 6) * 100,
                         size10 |-> (width - 10) * 10, rot |-> 0]),
                  Shape("circuit-glow-left", 0, 0,
                        [x10 |-> 50, y100 |-> 500, size10 |-> (height - 10) * 10, rot |-> 0]) >>
  IN [css |-> [keyframes |-> {"circuitGlow"},
               rules |-> {".circuit-dot", "[class^=circuit-glow-]"},
               waveSpeed |-> 0, waveAmplitude |-> 0],
      svg |-> [layer |-> TRUE, defs |-> {}, shapes |-> trail \o dots],
      draws |-> 0]

\* The mutant of sparksStyle: the sparks are placed over the whole card,
\* without the margin of 20.
sparksStyleUnpadded(width, height, s) ==
  LET sparks == [k \in 1..10 |->
                  Shape("spark", k - 1, 4,
                        [x10 |-> (Rand(s, 3 * (k - 1)) * width * 10) \div RAND_DENOM,
                         y100 |-> (Rand(s, 3 * (k - 1) + 1) * height * 100) \div RAND_DENOM,
                         size10 |-> 0,
                         rot |-> (Rand(s, 3 * (k - 1) + 2) * 360) \div RAND_DENOM])]
  IN [css |-> [keyframes |-> {"sparkFlash"}, rules |-> {".spark"},
               waveSpeed |-> 0, waveAmplitude |-> 0],
      svg |-> [layer |-> TRUE, defs |-> {}, shapes |-> sparks],
      draws |-> 30]

\* case "sparks", lines 424-453: three draws per spark, in the order x, y,
\* rotation: x = 20 + r * (width - 40), y = 20 + r * (height - 40),
\* rotation = r * 360, with r = Rand / RAND_DENOM, in tenths (x), hundredths
\* (y) and degrees.
sparksStyle(width, height, s) ==
  LET sparks == [k \in 1..10 |->
                  Shape("spark", k - 1, 4,
                        [x10 |-> (200 * RAND_DENOM
                                  + Rand(s, 3 * (k - 1)) * (width - 40) * 10) \div RAND_DENOM,
                         y100 |-> (2000 * RAND_DENOM
                                   + Rand(s, 3 * (k - 1) + 1) * (height - 40) * 100)
                                  \div RAND_DENOM,
                         size10 |-> 0,
                         rot |-> (Rand(s, 3 * (k - 1) + 2) * 360) \div RAND_DENOM])]
  IN [css |-> [keyframes |-> {"sparkFlash"}, rules |-> {".spark"},
               waveSpeed |-> 0, waveAmplitude |-> 0],
      svg |-> [layer |-> TRUE, defs |-> {}, shapes |-> sparks],
      draws |-> 30]

\* The mutant of getAnimationStyle: an unrecognised style falls through to the
\* last case instead of the default.
getAnimationStyleFallthrough(style, width, height, waveParams, s) ==
  IF style = "" \/ style = "none" THEN NoAnimation
  ELSE CASE style = "bubbles" -> bubblesStyle(width, height, waveParams)
         [] style = "embers" -> embersStyle(width, height, s)
         [] style = "radiant" -> radiantStyle(width, height)
         [] style = "circuit" -> circuitStyle(width, height)
         [] OTHER -> sparksStyle(width, height, s)

\* getAnimationStyle(style, colors, width, height, waveParams).  The colours
\* only tint the shapes and are left out; `s` is the state of Math.random().
\* `draws` is the number of draws the call consumed.
getAnimationStyle(style, width, height, waveParams, s) ==
  IF style = "" \/ style = "none" THEN NoAnimation
  ELSE CASE style = "bubbles" -> bubblesStyle(width, height, waveParams)
         [] style = "embers" -> embersStyle(width, height, s)
         [] style = "radiant" -> radiantStyle(width, height)
         [] style = "circuit" -> circuitStyle(width, height)
         [] style = "sparks" -> sparksStyle(width, height, s)
         [] OTHER -> NoAnimation

----------------------------------------------------------------------------
(* Labels.  Every label of the stat row is a record of one shape:           *)
(*   kind "name"  : a language name, in `unit`                              *)
(*   kind "count" : kFormatter's output, n.frac followed by unit ("k" or "")*)
(*   kind "age"   : formatAge's output, n followed by unit                  *)
(*   kind "empty" : the empty string                                        *)

Label(kind, n, frac, unit) == [kind |-> kind, n |-> n, frac |-> frac, unit |-> unit]
EmptyLabel == Label("empty", 0, 0, "")
IsEmptyLabel(l) == l.kind = "empty"

\* kFormatter (src/common/fmt.js, not among the source files): values of 1000
\* and more render as N.Nk with one decimal, smaller ones as the integer; a
\* missing count renders as zero.
kFormatter(count) ==
  LET num == OrDefault(count, 0)
      tenths == (num + 50) \div 100
  IN IF num > 999 THEN Label("count", tenths \div 10, tenths % 10, "k")
     ELSE Label("count", num, 0, "")

\* parseBoolean (src/common/ops.js, not among the source files): a boolean is
\* itself, the strings "true" and "false" in any case are the booleans, and
\* anything else, a missing value included, is undefined.
parseBoolean(value) ==
  IF value = Absent THEN Absent
  ELSE CASE Val(value) \in {"true", "True", "TRUE"} -> Some(TRUE)
         [] Val(value) \in {"false", "False", "FALSE"} -> Some(FALSE)
         [] OTHER -> Absent

----------------------------------------------------------------------------
(* formatAge, repo.js lines 615-643.  A timestamp is                         *)
(* [valid |-> whether Date can parse it, s |-> seconds, ms |-> 0..999];      *)
(* an unparsable one makes getTime() NaN, and every comparison with NaN is   *)
(* false, so the function falls through to its last return.                  *)

SECONDS_PER_YEAR == 31536000
SECONDS_PER_MONTH == 2592000
SECONDS_PER_DAY == 86400
SECONDS_PER_HOUR == 3600
SECONDS_PER_MINUTE == 60

\* The mutant of formatAge: the month count is tried before the year count.
formatAgeMonthsFirst(iso, t) ==
  IF iso = Absent THEN EmptyLabel
  ELSE LET then == Val(iso) IN
    IF ~then.valid THEN Label("age", 0, 0, "NaNs")
    ELSE
      LET whole == (t.s - then.s) + (IF t.ms < then.ms THEN -1 ELSE 0)
          sec == Max(0, whole)
          y == sec \div SECONDS_PER_YEAR
          mo == sec \div SECONDS_PER_MONTH
          d == sec \div SECONDS_PER_DAY
          h == sec \div SECONDS_PER_HOUR
          m == sec \div SECONDS_PER_MINUTE
      IN IF mo >= 1 THEN Label("age", mo, 0, "mo")
         ELSE IF y >= 1 THEN Label("age", y, 0, "y")
         ELSE IF d >= 1 THEN Label("age", d, 0, "d")
         ELSE IF h >= 1 THEN Label("age", h, 0, "h")
         ELSE IF m >= 1 THEN Label("age", m, 0, "m")
         ELSE Label("age", sec, 0, "s")

formatAge(iso, t) ==
  IF iso = Absent THEN EmptyLabel
  ELSE LET then == Val(iso) IN
    IF ~then.valid THEN Label("age", 0, 0, "NaNs")
    ELSE
      LET \* floor((now - then) / 1000), both in milliseconds
          whole == (t.s - then.s) + (IF t.ms < then.ms THEN -1 ELSE 0)
          sec == Max(0, whole)
          y == sec \div SECONDS_PER_YEAR
          mo == sec \div SECONDS_PER_MONTH
          d == sec \div SECONDS_PER_DAY
          h == sec \div SECONDS_PER_HOUR
          m == sec \div SECONDS_PER_MINUTE
      IN IF y >= 1 THEN Label("age", y, 0, "y")
         ELSE IF mo >= 1 THEN Label("age", mo, 0, "mo")
         ELSE IF d >= 1 THEN Label("age", d, 0, "d")
         ELSE IF h >= 1 THEN Label("age", h, 0, "h")
         ELSE IF m >= 1 THEN Label("age", m, 0, "m")
         ELSE Label("age", sec, 0, "s")

----------------------------------------------------------------------------
(* wrapTextInWave, repo.js lines 31-46.  Delays are in hundredths of a       *)
(* second.                                                                   *)

\* The mutant of wrapTextInWave: the delays are counted from the first
\* character as 1.
wrapTextInWaveFromOne(text, baseDelay, delayPerChar, colorMorph) ==
  [k \in 1..Len(text) |->
     [cls |-> IF colorMorph THEN {"wave-char", "wave-char-morph"} ELSE {"wave-char"},
      delay |-> baseDelay + k * delayPerChar,
      ch |-> IF text[k] = " " THEN "nbsp" ELSE text[k]]]
wrapTextInWave(text, baseDelay, delayPerChar, colorMorph) ==
  [k \in 1..Len(text) |->
     [cls |-> IF colorMorph THEN {"wave-char", "wave-char-morph"} ELSE {"wave-char"},
      delay |-> baseDelay + (k - 1) * delayPerChar,
      ch |-> IF text[k] = " " THEN "nbsp" ELSE text[k]]]

\* getBadgeSVG, repo.js lines 467-480
getBadgeSVG(label) == [testid |-> "badge", cls |-> "badge", label |-> label]

\* iconWithLabel(icon, label, testid, size) (src/common/render.js, not among
\* the source files) as repo.js uses it: the icon and the label as one item.
iconWithLabel(icon, label, testid) == [testid |-> testid, icon |-> icon, label |-> label]

\* createLanguageNode(langName, langColor)
createLanguageNode(langName) == [testid |-> "primary-lang", icon |-> "lang-color", label |-> Label("name", 0, 0, langName)]

\* One entry of rowSizes: the icon's share plus measureText(label, 12).
rowSize(icon, label) == [icon |-> icon, measured |-> label, font |-> STAT_FONT_SIZE]

----------------------------------------------------------------------------
(* renderRepoCard, repo.js lines 494-807, in the order of the code *)

\* The description shown when the record has none (line 546).
NoDescriptionProvided ==
  << [len |-> 2, c |-> "a"], [len |-> 11, c |-> "a"], [len |-> 8, c |-> "a"] >>

\* A description is [pad |-> blanks around the words, words |-> the words];
\* the string is truthy when it has any character.
descriptionTruthy(d) == d # Absent /\ (Val(d).pad > 0 \/ Val(d).words # <<>>)

\* description_lines_count is [kind |-> "number" or "string", val |-> its
\* number]; the number 0 is falsy, a string of digits is truthy.
linesCountTruthy(c) == c # Absent /\ ~(Val(c).kind = "number" /\ Val(c).val = 0)

\* lines 538-539
shouldHideTitleStatsOnlyIgnored(o) == Truthy(o.hide_title)
shouldHideTitle(o) == Truthy(o.stats_only) \/ Truthy(o.hide_title)
shouldHideText(o) == Truthy(o.stats_only) \/ Truthy(o.hide_text)

\* lines 542-544
\* The mutant of descriptionMaxLines: the supplied count is not clamped.
descriptionMaxLinesUnclamped(o) ==
  IF linesCountTruthy(o.description_lines_count)
  THEN Val(o.description_lines_count).val
  ELSE DESCRIPTION_MAX_LINES
descriptionMaxLines(o) ==
  IF linesCountTruthy(o.description_lines_count)
  THEN clampValue(Val(o.description_lines_count).val, 1, DESCRIPTION_MAX_LINES)
  ELSE DESCRIPTION_MAX_LINES

\* lines 546-551
multiLineDescription(r, o) ==
  wrapTextMultiline(
    parseEmojis(IF descriptionTruthy(r.description)
                THEN Val(r.description).words ELSE NoDescriptionProvided),
    DESCRIPTION_LINE_WIDTH, descriptionMaxLines(o))

\* lines 536, 541, 553-555
descriptionLinesCount(r, o) ==
  IF shouldHideText(o) THEN 0
  ELSE IF linesCountTruthy(o.description_lines_count)
       THEN descriptionMaxLines(o)
       ELSE Len(multiLineDescription(r, o))

\* lines 537, 541, 557-559: one tspan per line, the line escaped.
descriptionSvg(r, o) ==
  IF shouldHideText(o) THEN <<>>
  ELSE LET lines == multiLineDescription(r, o)
       IN [i \in 1..Len(lines) |-> [dy |-> "1.2em", x |-> 25, text |-> encodeLine(lines[i])]]

\* line 562
hasDescription(r, o) == ~shouldHideText(o) /\ descriptionLinesCount(r, o) > 0

\* line 570; the mutant takes the compact layout whenever the text is hidden.
compactWhenTextHidden(o) == shouldHideText(o)
compactStatsOnlyLayout(o) == shouldHideText(o) /\ shouldHideTitle(o)

\* lines 563-575: the local `height`.
heightSingleBase(r, o) ==
  IF compactStatsOnlyLayout(o) THEN COMPACT_PADDING * 2 + (ICON_SIZE + 8)
  ELSE BASE_HEIGHT +
       (IF hasDescription(r, o) THEN descriptionLinesCount(r, o) * lineHeight ELSE 0)
height(r, o) ==
  IF compactStatsOnlyLayout(o) THEN COMPACT_PADDING * 2 + (ICON_SIZE + 8)
  ELSE (IF hasDescription(r, o) /\ descriptionLinesCount(r, o) > 1
           THEN MULTILINE_BASE_HEIGHT ELSE BASE_HEIGHT) +
       (IF hasDescription(r, o) THEN descriptionLinesCount(r, o) * lineHeight ELSE 0)

\* lines 701-705: the height the Card is constructed with.
cardHeightNoAllowance(r, o) == height(r, o)
cardHeight(r, o) ==
  IF shouldHideTitle(o)
  THEN (IF compactStatsOnlyLayout(o) THEN height(r, o) + HIDDEN_TITLE_ALLOWANCE
        ELSE height(r, o))
  ELSE height(r, o)

\* line 533
header(r, o) == IF Truthy(o.show_owner) THEN r.nameWithOwner ELSE r.name

\* line 708: the Card's defaultTitle.
defaultTitle(h) ==
  IF Len(h) > HEADER_MAX THEN SubSeq(h, 1, HEADER_MAX) \o <<".", ".", ".">> ELSE h

\* line 773: the text handed to wrapTextInWave.
waveTitleTextUncut(h) == h
waveTitleText(h) ==
  IF Len(h) > HEADER_MAX THEN SubSeq(h, 1, HEADER_MAX) \o <<".", ".", ".">> ELSE h

\* lines 645-653
ageIso(r, o) ==
  LET age_metric == OrDefault(o.age_metric, "first") IN
  IF age_metric = "created" THEN r.createdAt
  ELSE IF age_metric = "first" THEN r.firstCommitDate
  ELSE r.pushedAt

\* lines 534, 592-608, 654-694: rowItems and rowSizes, built side by side.
\* The mutant of statRow: the issues badge is pushed before the forks badge.
statRowIssuesBeforeForks(r, o, t) ==
  LET langName == IF r.primaryLanguage # Absent /\ Val(r.primaryLanguage).name # ""
                  THEN Val(r.primaryLanguage).name ELSE "Unspecified"
      totalStars == kFormatter(r.starCount)
      totalForks == kFormatter(r.forkCount)
      issuesCount == OrDefault(r.openIssuesCount, 0)
      prsCount == OrDefault(r.openPrsCount, 0)
      totalIssues == kFormatter(Some(issuesCount))
      totalPRs == kFormatter(Some(prsCount))
      ageLabel == formatAge(ageIso(r, o), t)
      push(row, cond, item, size) ==
        IF cond THEN [items |-> Append(row.items, item), sizes |-> Append(row.sizes, size)]
        ELSE row
      r0 == [items |-> <<>>, sizes |-> <<>>]
      r1 == push(r0, r.primaryLanguage # Absent,
                 createLanguageNode(langName), rowSize(0, Label("name", 0, 0, langName)))
      r2 == push(r1, TRUE, iconWithLabel("star", totalStars, "stargazers"),
                 rowSize(ICON_SIZE, totalStars))
      r3 == push(r2, Truthy(o.show_issues) /\ issuesCount > 0,
                 iconWithLabel("issues", totalIssues, "issues"),
                 rowSize(ICON_SIZE, totalIssues))
      r4 == push(r3, TRUE, iconWithLabel("fork", totalForks, "forkcount"),
                 rowSize(ICON_SIZE, totalForks))
      r5 == push(r4, Truthy(o.show_prs) /\ prsCount > 0,
                 iconWithLabel("prs", totalPRs, "prs"),
                 rowSize(ICON_SIZE, totalPRs))
      r6 == push(r5, Truthy(o.show_age) /\ ~IsEmptyLabel(ageLabel),
                 iconWithLabel("commits", ageLabel, "age"),
                 rowSize(ICON_SIZE, ageLabel))
  IN r6
statRow(r, o, t) ==
  LET langName == IF r.primaryLanguage # Absent /\ Val(r.primaryLanguage).name # ""
                  THEN Val(r.primaryLanguage).name ELSE "Unspecified"
      totalStars == kFormatter(r.starCount)
      totalForks == kFormatter(r.forkCount)
      issuesCount == OrDefault(r.openIssuesCount, 0)
      prsCount == OrDefault(r.openPrsCount, 0)
      totalIssues == kFormatter(Some(issuesCount))
      totalPRs == kFormatter(Some(prsCount))
      ageLabel == formatAge(ageIso(r, o), t)
      push(row, cond, item, size) ==
        IF cond THEN [items |-> Append(row.items, item), sizes |-> Append(row.sizes, size)]
        ELSE row
      r0 == [items |-> <<>>, sizes |-> <<>>]
      r1 == push(r0, r.primaryLanguage # Absent,
                 createLanguageNode(langName), rowSize(0, Label("name", 0, 0, langName)))
      r2 == push(r1, TRUE, iconWithLabel("star", totalStars, "stargazers"),
                 rowSize(ICON_SIZE, totalStars))
      r3 == push(r2, TRUE, iconWithLabel("fork", totalForks, "forkcount"),
                 rowSize(ICON_SIZE, totalForks))
      r4 == push(r3, Truthy(o.show_issues) /\ issuesCount > 0,
                 iconWithLabel("issues", totalIssues, "issues"),
                 rowSize(ICON_SIZE, totalIssues))
      r5 == push(r4, Truthy(o.show_prs) /\ prsCount > 0,
                 iconWithLabel("prs", totalPRs, "prs"),
                 rowSize(ICON_SIZE, totalPRs))
      r6 == push(r5, Truthy(o.show_age) /\ ~IsEmptyLabel(ageLabel),
                 iconWithLabel("commits", ageLabel, "age"),
                 rowSize(ICON_SIZE, ageLabel))
  IN r6

\* lines 524-525, 717
animationStyle(o) == OrDefault(o.animation_style, "none")
hasAnimationDisableIgnored(o) == animationStyle(o) # "none"
hasAnimation(o) == ~Truthy(o.disable_animations) /\ animationStyle(o) # "none"

\* lines 526-529, 718-723: wave_delay is in hundredths of a second.
waveParams(o) ==
  [speed |-> OrDefault(o.wave_speed, 2),
   amplitude |-> OrDefault(o.wave_amplitude, 3),
   delay |-> OrDefault(o.wave_delay, 5),
   colorMorph |-> OrDefault(o.color_morph, FALSE)]

\* lines 724-726
animationData(r, o, s) ==
  IF hasAnimation(o)
  THEN getAnimationStyle(animationStyle(o), CARD_WIDTH, cardHeight(r, o), waveParams(o), s)
  ELSE NoAnimation

\* line 729
useBubblesWave(o) == animationStyle(o) = "bubbles" /\ ~Truthy(o.disable_animations)

\* lines 731-733: whether card.disableAnimations() is called.
cardAnimationsDisabled(o) == Truthy(o.disable_animations)

\* lines 757-777
customWaveTitle(r, o) ==
  IF useBubblesWave(o) /\ ~shouldHideTitle(o)
  THEN Some([testid |-> "card-title", icon |-> "contribs",
             text |-> wrapTextInWave(waveTitleText(Val(header(r, o))), 0,
                                     waveParams(o).delay, waveParams(o).colorMorph)])
  ELSE Absent

\* The title group of Card.render (src/common/Card.js), data-testid
\* "card-title": emitted with the default title unless hideTitle is set.
renderTitle(card) ==
  IF card.hideTitle THEN Absent
  ELSE Some([testid |-> "card-title", text |-> card.defaultTitle])

\* lines 783-789
badgeArchivedFirst(r) ==
  IF Truthy(r.isArchived) THEN Some(getBadgeSVG("repocard.archived"))
  ELSE IF Truthy(r.isTemplate) THEN Some(getBadgeSVG("repocard.template"))
  ELSE Absent
badge(r) ==
  IF Truthy(r.isTemplate) THEN Some(getBadgeSVG("repocard.template"))
  ELSE IF Truthy(r.isArchived) THEN Some(getBadgeSVG("repocard.archived"))
  ELSE Absent

\* What a call that raises leaves behind: header.length on an undefined header
\* (line 708) is a TypeError.
Threw == [called |-> TRUE, threw |-> TRUE]
\* No call of renderRepoCard has returned yet.
NoOutput == [called |-> FALSE, threw |-> TRUE]

\* renderRepoCard(repo, options) with Date.now() = t and Math.random() in
\* state s.  The result keeps the Card the code builds (lines 707-754) and the
\* body handed to card.render (lines 779-806).  y10 is the stat row's vertical
\* offset in tenths.
renderRepoCard(r, o, t, s) ==
  IF header(r, o) = Absent THEN Threw
  ELSE
    [called |-> TRUE,
     threw |-> FALSE,
     height |-> height(r, o),
     descriptionLinesCount |-> descriptionLinesCount(r, o),
     linesWrapped |-> IF shouldHideText(o) THEN 0 ELSE Len(multiLineDescription(r, o)),
     card |-> [defaultTitle |-> defaultTitle(Val(header(r, o))),
               titlePrefixIcon |-> "contribs",
               width |-> CARD_WIDTH,
               height |-> cardHeight(r, o),
               animationsDisabled |-> cardAnimationsDisabled(o),
               hideBorder |-> OrDefault(o.hide_border, FALSE),
               hideTitle |-> shouldHideTitle(o),
               paddingX |-> IF compactStatsOnlyLayout(o) THEN Some(COMPACT_PADDING_X) ELSE Absent,
               css |-> [waveTitleFont |-> TRUE,
                        hideDefaultTitle |-> useBubblesWave(o),
                        animation |-> animationData(r, o, s).css]],
     body |-> [animation |-> animationData(r, o, s).svg,
               customWaveTitle |-> customWaveTitle(r, o),
               badge |-> badge(r),
               description |-> IF hasDescription(r, o) THEN Some(descriptionSvg(r, o)) ELSE Absent,
               statRow |-> [x |-> IF compactStatsOnlyLayout(o) THEN 20 ELSE 30,
                            y10 |-> IF hasDescription(r, o) THEN (height(r, o) - 75) * 10
                                    ELSE IF compactStatsOnlyLayout(o) THEN 25 ELSE 0,
                            items |-> statRow(r, o, t).items,
                            sizes |-> statRow(r, o, t).sizes]],
     draws |-> animationData(r, o, s).draws]

----------------------------------------------------------------------------
(* The pin handler, part_004 lines 35-167 *)

\* The options bag of a call that passes no option, and the bag's keys.
NoOptions ==
  [hide_border |-> Absent, hide_title |-> Absent, hide_text |-> Absent,
   stats_only |-> Absent, show_owner |-> Absent,
   description_lines_count |-> Absent, show_issues |-> Absent,
   show_prs |-> Absent, show_age |-> Absent, age_metric |-> Absent,
   animation_style |-> Absent, disable_animations |-> Absent,
   wave_speed |-> Absent, wave_amplitude |-> Absent, wave_delay |-> Absent,
   color_morph |-> Absent]

\* req.query with no parameter.
NoQuery ==
  [username |-> Absent, repo |-> Absent, locale |-> Absent,
   hide_border |-> Absent, hide_title |-> Absent, hide_text |-> Absent,
   stats_only |-> Absent, show_owner |-> Absent,
   description_lines_count |-> Absent, show_issues |-> Absent,
   show_prs |-> Absent, show_age |-> Absent, age_metric |-> Absent,
   animation_style |-> Absent, disable_animations |-> Absent,
   cache_seconds |-> Absent]

\* lines 125-148: the options the handler passes to renderRepoCard.  A count
\* in the query string reaches the card as a string.
pinOptions(q) ==
  LET statsOnly == parseBoolean(q.stats_only) = Some(TRUE) IN
  [NoOptions EXCEPT
     !.hide_border = parseBoolean(q.hide_border),
     !.hide_title = IF statsOnly THEN Some(TRUE) ELSE parseBoolean(q.hide_title),
     !.hide_text = IF statsOnly THEN Some(TRUE) ELSE parseBoolean(q.hide_text),
     !.stats_only = Some(statsOnly),
     !.show_owner = parseBoolean(q.show_owner),
     !.description_lines_count =
        IF q.description_lines_count = Absent THEN Absent
        ELSE Some([kind |-> "string", val |-> Val(q.description_lines_count)]),
     !.show_issues = parseBoolean(q.show_issues),
     !.show_prs = parseBoolean(q.show_prs),
     !.show_age = parseBoolean(q.show_age),
     !.age_metric = Some(OrDefault(q.age_metric, "first"))]

\* renderError(message, secondaryMessage, options) as a response body.
renderError(message, secondaryMessage) ==
  [kind |-> "error", message |-> message, secondaryMessage |-> secondaryMessage,
   card |-> NoOutput]
\* A repo card as a response body.
cardBody(card) ==
  [kind |-> "card", message |-> "", secondaryMessage |-> "", card |-> card]

\* What fetchRepo yields: a record, or an error with its two messages.
Fetched(r) == [ok |-> TRUE, repo |-> r, message |-> "", secondaryMessage |-> ""]


\* A RepositoryData record with every field missing.
NoRepo ==
  [name |-> Absent, nameWithOwner |-> Absent, description |-> Absent,
   primaryLanguage |-> Absent, isArchived |-> Absent, isTemplate |-> Absent,
   starCount |-> Absent, forkCount |-> Absent, openIssuesCount |-> Absent,
   openPrsCount |-> Absent, createdAt |-> Absent, pushedAt |-> Absent,
   firstCommitDate |-> Absent]

Failed(message, secondaryMessage) ==
  [ok |-> FALSE, repo |-> NoRepo, message |-> message, secondaryMessage |-> secondaryMessage]

urlExample == "/api/pin?username=USERNAME&amp;repo=REPO_NAME"

\* !username, !reponame: a missing or empty parameter.
missingParam(p) == p = Absent \/ p = Some("")

\* Whether fetchRepo reaches `await retryer(fetcher, ...)` (CHANGELOG.md line
\* 82, part_001 line 91): only past the three parameter checks.
retryerInvokedUnchecked(username, reponame) == TRUE
retryerInvoked(username, reponame) == ~missingParam(username) /\ ~missingParam(reponame)

\* What the retryer resolves to: res.data.errors and res.data.data, the latter
\* with a repository node or null.  A node holds the fields of the query
\* (CHANGELOG.md lines 22-55), isPrivate and stargazers among them.
Response(errors, data) == [errors |-> errors, data |-> data]
Node(fields, isPrivate, totalCount) ==
  [fields |-> [fields EXCEPT !.starCount = Absent, !.firstCommitDate = Absent],
   isPrivate |-> isPrivate, stargazers |-> [totalCount |-> totalCount]]
NoData == Absent
Data(repository) == Some([repository |-> repository])

\* The record fetchRepo returns for a repository node (CHANGELOG.md lines
\* 99-109): the node's fields, starCount taken from stargazers.totalCount and
\* firstCommitDate set to createdAt || null.
repositoryData(node) ==
  [node.fields EXCEPT !.starCount = node.stargazers.totalCount,
                      !.firstCommitDate = node.fields.createdAt]

\* CHANGELOG.md line 86: errors[0].message || "GitHub GraphQL error"
graphqlMessage(errors) == IF errors[1] = "" THEN "GitHub GraphQL error" ELSE errors[1]

\* CHANGELOG.md line 94, `!repo || repo.isPrivate`; the mutant lets a private
\* repository through.
notFoundPublicOnly(repository) == repository = Absent
notFound(repository) == repository = Absent \/ Val(repository).isPrivate

\* The mutant of fetchRepo: the repository is looked at before the errors.
fetchRepoDataFirst(username, reponame, api) ==
  LET missing(p) == missingParam(p) IN
  IF missing(username) /\ missing(reponame)
  THEN Failed("Missing params \"username\", \"repo\" make sure you pass the parameters in URL",
              urlExample)
  ELSE IF missing(username)
  THEN Failed("Missing params \"username\" make sure you pass the parameters in URL",
              urlExample)
  ELSE IF missing(reponame)
  THEN Failed("Missing params \"repo\" make sure you pass the parameters in URL", urlExample)
  ELSE IF api.data # Absent /\ ~notFound(Val(api.data).repository)
  THEN Fetched(repositoryData(Val(Val(api.data).repository)))
  ELSE IF api.errors # <<>> THEN Failed(graphqlMessage(api.errors), "")
  ELSE IF api.data = Absent THEN Failed("Invalid response from GitHub API", "")
  ELSE Failed("Repository Not found", "")

\* fetchRepo(username, reponame), CHANGELOG.md lines 70-110: the parameter
\* checks, then the request, whose response is `api`, then the checks of the
\* response in the order of lines 85-96.
fetchRepo(username, reponame, api) ==
  LET missing(p) == missingParam(p) IN
  IF missing(username) /\ missing(reponame)
  THEN Failed("Missing params \"username\", \"repo\" make sure you pass the parameters in URL",
              urlExample)
  ELSE IF missing(username)
  THEN Failed("Missing params \"username\" make sure you pass the parameters in URL",
              urlExample)
  ELSE IF missing(reponame)
  THEN Failed("Missing params \"repo\" make sure you pass the parameters in URL", urlExample)
  ELSE IF api.errors # <<>> THEN Failed(graphqlMessage(api.errors), "")
  ELSE IF api.data = Absent THEN Failed("Invalid response from GitHub API", "")
  ELSE IF notFound(Val(api.data).repository) THEN Failed("Repository Not found", "")
  ELSE Fetched(repositoryData(Val(Val(api.data).repository)))

\* The calls a request has made so far.
NoCalls == [fetchRepo |-> 0, retryer |-> 0]

NoResponse == [contentType |-> Absent, cacheControl |-> Absent, sent |-> <<>>]

\* CONSTANTS of the common utilities, in seconds.
FIVE_MINUTES == 300
TWELVE_HOURS == 43200
ERROR_CACHE_SECONDS == 600
ONE_DAY == 86400

\* A Cache-Control header value, by its directives.
CacheControl(maxAge, sMaxage, staleWhileRevalidate) ==
  [maxAge |-> maxAge, sMaxage |-> sMaxage, staleWhileRevalidate |-> staleWhileRevalidate]
\* part_004 lines 120-123: `max-age=${cacheSeconds}, s-maxage=${cacheSeconds}`
successCacheControl(n) == CacheControl(n, n, Absent)
\* part_004 lines 151-158: the header of the catch block.
errorCacheControl ==
  CacheControl(ERROR_CACHE_SECONDS \div 2, ERROR_CACHE_SECONDS, Some(ONE_DAY))

\* A string of the query or of the environment: decimal digits with the
\* value parseInt(_, 10) gives them, the empty string, or text that parses to
\* NaN.
Digits(n) == [kind |-> "digits", val |-> n]
EmptyString == [kind |-> "empty", val |-> 0]
NotANumber == [kind |-> "text", val |-> 0]
\* `s ? ... : ...` and `s || ...` of an optional string.
NonEmpty(s) == s # Absent /\ Val(s).kind # "empty"
\* parseInt(s, 10) || fallback
parseIntOr(s, fallback) ==
  IF Val(s).kind = "digits" /\ Val(s).val # 0 THEN Val(s).val ELSE fallback

\* The mutant of cacheSeconds: the requested value is taken as it is.
cacheSecondsUnclamped(q, c) ==
  LET asked == IF NonEmpty(q.cache_seconds) THEN Val(q.cache_seconds).val ELSE TWELVE_HOURS
  IN IF NonEmpty(c.CACHE_SECONDS) THEN parseIntOr(c.CACHE_SECONDS, asked) ELSE asked

\* part_004 lines 111-118: cache_seconds || TWELVE_HOURS, clamped, then
\* replaced by process.env.CACHE_SECONDS when that is set and parses to a
\* number other than 0.
cacheSeconds(q, c) ==
  LET asked == IF NonEmpty(q.cache_seconds) THEN Val(q.cache_seconds).val ELSE TWELVE_HOURS
      clamped == clampValue(asked, FIVE_MINUTES, TWELVE_HOURS)
  IN IF NonEmpty(c.CACHE_SECONDS) THEN parseIntOr(c.CACHE_SECONDS, clamped) ELSE clamped

\* The mutant of setHeader: the Content-Type header is dropped.
setHeaderCacheOnly(r, name, value) ==
  IF name = "Content-Type" THEN r ELSE [r EXCEPT !.cacheControl = Some(value)]

setHeader(r, name, value) ==
  IF name = "Content-Type" THEN [r EXCEPT !.contentType = Some(value)]
  ELSE [r EXCEPT !.cacheControl = Some(value)]
send(r, body) == [r EXCEPT !.sent = Append(r.sent, body)]

\* line 62: whitelist && !whitelist.includes(username)
notWhitelisted(c, username) ==
  c.whitelist # Absent /\ ~(username # Absent /\ username \subseteq Val(c.whitelist))

\* line 79: whitelist === undefined && blacklist.includes(username)
blacklistedDespiteWhitelist(c, username) ==
  username # Absent /\ username \subseteq c.blacklist
blacklisted(c, username) ==
  c.whitelist = Absent /\ username # Absent /\ username \subseteq c.blacklist

\* line 96: locale && !isLocaleAvailable(locale)
localeUnavailable(c, locale) ==
  locale # Absent /\ locale # Some("") /\ ~(locale \subseteq c.locales)

\* lines 36-109: up to the await of fetchRepo, whose synchronous part (its
\* parameter checks and the call of the retryer) runs within the call.
PinStart ==
  /\ pc = "request"
  /\ LET r1 == setHeader(res, "Content-Type", "image/svg+xml")
         username == query.username
     IN IF notWhitelisted(config, username)
        THEN /\ res' = send(r1, renderError("This username is not whitelisted",
                                            "Please deploy your own instance"))
             /\ pc' = "responded"
             /\ calls' = calls
        ELSE IF blacklisted(config, username)
        THEN /\ res' = send(r1, renderError("This username is blacklisted",
                                            "Please deploy your own instance"))
             /\ pc' = "responded"
             /\ calls' = calls
        ELSE IF localeUnavailable(config, query.locale)
        THEN /\ res' = send(r1, renderError("Something went wrong", "Language not found"))
             /\ pc' = "responded"
             /\ calls' = calls
        ELSE /\ res' = r1
             /\ pc' = "fetching"
             /\ calls' = [fetchRepo |-> calls.fetchRepo + 1,
                          retryer |-> calls.retryer +
                             (IF retryerInvoked(query.username, query.repo) THEN 1 ELSE 0)]
  /\ UNCHANGED <<query, config, github, repo, options, now, seed, out>>

\* lines 109-166: from the return of fetchRepo to the response.
PinResume ==
  /\ pc = "fetching"
  /\ LET repoData == fetchRepo(query.username, query.repo, github)
         opts == pinOptions(query)
         card == renderRepoCard(repoData.repo, opts, now, seed)
         success == successCacheControl(cacheSeconds(query, config))
     IN IF ~repoData.ok
        THEN /\ res' = send(setHeader(res, "Cache-Control", errorCacheControl),
                            renderError(repoData.message, repoData.secondaryMessage))
             /\ UNCHANGED <<repo, options, out, seed>>
        ELSE /\ repo' = repoData.repo
             /\ options' = opts
             /\ out' = card
             /\ seed' = IF card.threw THEN seed
                        ELSE (seed + RAND_STEP * card.draws) % RAND_DENOM
             /\ IF card.threw
                THEN res' = send(setHeader(setHeader(res, "Cache-Control", success),
                                           "Cache-Control", errorCacheControl),
                                 renderError("Cannot read properties of undefined", ""))
                ELSE res' = send(setHeader(res, "Cache-Control", success), cardBody(card))
  /\ pc' = "responded"
  /\ UNCHANGED <<query, config, github, now, calls>>

\* A direct call of renderRepoCard(repo, options), as the tests make it.
Render ==
  /\ pc = "call"
  /\ out' = renderRepoCard(repo, options, now, seed)
  /\ seed' = IF out'.threw THEN seed ELSE (seed + RAND_STEP * out'.draws) % RAND_DENOM
  /\ pc' = "returned"
  /\ UNCHANGED <<query, config, github, res, repo, options, now, calls>>

Next == Render \/ PinStart \/ PinResume

----------------------------------------------------------------------------
(* The inputs tried *)

Bool3 == {Absent, Some(TRUE), Some(FALSE)}
Flag == {Absent, Some(TRUE)}

\* A name of n characters whose second character is c.
Name(n, c) == [i \in 1..n |-> IF i = 2 THEN c ELSE "a"]
Owner == <<"o", "/">>
Names ==
  {Name(3, c) : c \in {"a", "<", "&", " "}} \cup
  {Name(n, "a") : n \in {HEADER_MAX - 2, HEADER_MAX - 1, HEADER_MAX, HEADER_MAX + 1}} \cup
  {Name(MaxNameLen, ">")}

\* Descriptions: n words of 29 characters (two fit a line of 59), a blank
\* string, the empty string, and one with markup characters, an emoji
\* shortcode and a word longer than a line.
Plain(n) == [pad |-> 0, words |-> [i \in 1..n |-> [len |-> 29, c |-> "a"]]]
Blank == [pad |-> 1, words |-> <<>>]
Markup ==
  [pad |-> 0,
   words |-> << [len |-> 5, c |-> "<"], [len |-> 29, c |-> "a"], [len |-> 29, c |-> "&"],
                [len |-> 7, c |-> ":"], [len |-> 70, c |-> ">"] >>]
Descriptions ==
  {Absent, Some(Blank), Some(Markup)} \cup {Some(Plain(n)) : n \in 0..MaxWords}

LinesCounts ==
  {Absent} \cup {Some([kind |-> "number", val |-> v]) : v \in -1..MaxLinesAsked}
           \cup {Some([kind |-> "string", val |-> v]) : v \in {0, 2}}

NOW_SECONDS == 1000000000
Now0 == [s |-> NOW_SECONDS, ms |-> 500]
Ago(seconds) == Some([valid |-> TRUE, s |-> NOW_SECONDS - seconds, ms |-> 0])
Unparsable == Some([valid |-> FALSE, s |-> 0, ms |-> 0])

TypeScript == Some([name |-> "TypeScript", color |-> "#2b7489"])

\* The record of the handler's tests (part_004 lines 178-194), with names.
BaseRepo ==
  [NoRepo EXCEPT
     !.name = Some(Name(3, "a")),
     !.nameWithOwner = Some(Owner \o Name(3, "a")),
     !.description = Some(Plain(1)),
     !.primaryLanguage = TypeScript,
     !.isTemplate = Some(FALSE),
     !.starCount = Some(38000),
     !.forkCount = Some(100)]

\* Direct calls that vary what decides the layout.
LayoutCall(r, o, s) ==
  \E d \in Descriptions,
     ht \in Flag,
     hx \in Flag,
     so \in Bool3,
     hb \in Flag,
     lc \in LinesCounts,
     as \in {Absent, Some("bubbles"), Some("fireworks")},
     da \in Flag :
    /\ r = [BaseRepo EXCEPT !.description = d]
    /\ o = [NoOptions EXCEPT !.hide_title = ht, !.hide_text = hx, !.stats_only = so,
                       !.hide_border = hb, !.description_lines_count = lc,
                       !.animation_style = as, !.disable_animations = da]
    /\ s = 0

\* Direct calls that vary what decides the stat row.
RowCall(r, o, s) ==
  \E pl \in {Absent, TypeScript, Some([name |-> "", color |-> ""])},
     ic \in {Absent, Some(0), Some(1500)},
     pr \in {Absent, Some(0), Some(3)},
     ca \in {Absent, Ago(400 * SECONDS_PER_DAY), Ago(-60)},
     pa \in {Absent, Ago(5 * SECONDS_PER_HOUR), Unparsable},
     fc \in {Absent, Ago(45 * SECONDS_PER_DAY)},
     si \in Flag,
     sp \in Flag,
     sa \in Flag,
     am \in {Absent, Some("created"), Some("pushed")} :
    /\ r = [BaseRepo EXCEPT !.primaryLanguage = pl, !.openIssuesCount = ic,
                      !.openPrsCount = pr, !.createdAt = ca, !.pushedAt = pa,
                      !.firstCommitDate = fc]
    /\ o = [NoOptions EXCEPT !.show_issues = si, !.show_prs = sp, !.show_age = sa,
                       !.age_metric = am]
    /\ s = 0

\* Direct calls that vary the title and the badge.
TitleCall(r, o, s) ==
  \E nm \in {Absent} \cup {Some(n) : n \in Names},
     wo \in BOOLEAN,
     ia \in Bool3,
     it \in Bool3,
     so \in Flag,
     ht \in Flag,
     as \in {Absent, Some("bubbles"), Some("radiant")},
     da \in Flag,
     cm \in Flag,
     wd \in {Absent, Some(0), Some(10)} :
    /\ r = [BaseRepo EXCEPT !.name = nm,
                      !.nameWithOwner = IF nm = Absent \/ ~wo THEN Absent
                                        ELSE Some(Owner \o Val(nm)),
                      !.isArchived = ia, !.isTemplate = it]
    /\ o = [NoOptions EXCEPT !.show_owner = so, !.hide_title = ht,
                       !.animation_style = as, !.disable_animations = da,
                       !.color_morph = cm, !.wave_delay = wd]
    /\ s = 0

\* Direct calls that vary the animation.
AnimationStyles ==
  {Absent, Some("none"), Some(""), Some("bubbles"), Some("embers"), Some("radiant"),
   Some("circuit"), Some("sparks"), Some("fireworks")}
AnimationCall(r, o, s) ==
  \E as \in AnimationStyles,
     da \in Bool3,
     ws \in {Absent, Some(0), Some(4)},
     wa \in {Absent, Some(6)},
     wd \in {Absent, Some(10)},
     cm \in Flag,
     ht \in Flag,
     hx \in Flag,
     so \in Flag,
     sd \in 0..MaxSeed :
    /\ r = [BaseRepo EXCEPT !.name = Some(Name(3, " "))]
    /\ o = [NoOptions EXCEPT !.animation_style = as, !.disable_animations = da,
                       !.wave_speed = ws, !.wave_amplitude = wa, !.wave_delay = wd,
                       !.color_morph = cm, !.hide_title = ht, !.hide_text = hx,
                       !.stats_only = so]
    /\ s = sd

\* Direct calls that vary the height of a card with randomly placed shapes.
GeometryCall(r, o, s) ==
  \E as \in {Some("embers"), Some("sparks")},
     d \in {Some(Plain(1)), Some(Plain(3)), Some(Plain(5))},
     ht \in Flag,
     hx \in Flag,
     sd \in 0..MaxSeed :
    /\ r = [BaseRepo EXCEPT !.description = d]
    /\ o = [NoOptions EXCEPT !.animation_style = as, !.hide_title = ht, !.hide_text = hx]
    /\ s = sd

\* Timestamps around every unit boundary of formatAge, one in the future, one
\* whose milliseconds lie past those of the clock, and one no Date can parse.
Elapsed ==
  {0, SECONDS_PER_MINUTE - 1, SECONDS_PER_MINUTE, SECONDS_PER_HOUR - 1, SECONDS_PER_HOUR,
   SECONDS_PER_DAY - 1, SECONDS_PER_DAY, SECONDS_PER_MONTH - 1, SECONDS_PER_MONTH,
   SECONDS_PER_YEAR - 1, SECONDS_PER_YEAR, 400 * SECONDS_PER_DAY, 800 * SECONDS_PER_DAY}
Stamps ==
  {Ago(e) : e \in Elapsed} \cup
  {Ago(-SECONDS_PER_HOUR), Unparsable,
   Some([valid |-> TRUE, s |-> NOW_SECONDS - SECONDS_PER_MINUTE, ms |-> 999])}
AgeMetrics == {Absent, Some("created"), Some("pushed"), Some("first"), Some("other")}

\* Direct calls that vary the age badge: one timestamp, in one of the three
\* fields of the record.
AgeCall(r, o, s) ==
  \E st \in Stamps,
     field \in {"createdAt", "pushedAt", "firstCommitDate"},
     am \in AgeMetrics,
     sa \in Bool3 :
    /\ r = [BaseRepo EXCEPT
              !.createdAt = IF field = "createdAt" THEN st ELSE Absent,
              !.pushedAt = IF field = "pushedAt" THEN st ELSE Absent,
              !.firstCommitDate = IF field = "firstCommitDate" THEN st ELSE Absent]
    /\ o = [NoOptions EXCEPT !.show_age = sa, !.age_metric = am]
    /\ s = 0

\* Direct calls with sparse records: any of the fields missing.
SparseCall(r, o, s) ==
  \E nm \in {Absent, Some(Name(3, "a"))},
     nwo \in {Absent, Some(Owner \o Name(3, "a"))},
     d \in {Absent, Some(Plain(1))},
     pl \in {Absent, TypeScript},
     sc \in {Absent, Some(38000)},
     fc \in {Absent, Some(100)},
     ic \in {Absent, Some(2)},
     ca \in {Absent, Ago(SECONDS_PER_DAY)},
     wo \in Flag,
     sh \in Flag :
    /\ r = [NoRepo EXCEPT !.name = nm, !.nameWithOwner = nwo, !.description = d,
                     !.primaryLanguage = pl, !.starCount = sc, !.forkCount = fc,
                     !.openIssuesCount = ic, !.openPrsCount = ic, !.createdAt = ca]
    /\ o = [NoOptions EXCEPT !.show_owner = wo, !.show_issues = sh, !.show_prs = sh,
                       !.show_age = sh]
    /\ s = 0

\* Requests to the pin handler.
Requests ==
  {[NoQuery EXCEPT !.username = un, !.repo = rp, !.locale = lo, !.stats_only = so,
                   !.hide_title = ht, !.hide_text = hx,
                   !.description_lines_count = lc, !.animation_style = as] :
   un \in {Absent, Some("alice"), Some("renovate-bot")},
   rp \in {Absent, Some("convoychat")},
   lo \in {Absent, Some("asdf")},
   so \in {Absent, Some("true"), Some("TRUE"), Some("false"), Some("1")},
   ht \in {Absent, Some("false")},
   hx \in {Absent, Some("true")},
   lc \in {Absent, Some(2)},
   as \in {Absent, Some("bubbles")}}

Configs ==
  {[whitelist |-> wl, blacklist |-> {"renovate-bot"}, locales |-> {"en", "fr"},
    CACHE_SECONDS |-> Absent] :
   wl \in {Absent, Some({"alice"}), Some({"alice", "renovate-bot"})}}

\* The response for a public repository with the fields of r.
Found(r) == Response(<<>>, Data(Some(Node(r, FALSE, r.starCount))))

\* Requests that ask for the age badge, of repositories with either timestamp.
AgeRequest(q, c, g) ==
  \E sa \in {Absent, Some("true")},
     am \in {Absent, Some("created"), Some("pushed"), Some("first")},
     ca \in {Absent, Ago(400 * SECONDS_PER_DAY)},
     pa \in {Absent, Ago(5 * SECONDS_PER_HOUR), Unparsable} :
    /\ q = [NoQuery EXCEPT !.username = Some("alice"), !.repo = Some("convoychat"),
                      !.show_age = sa, !.age_metric = am]
    /\ c = [whitelist |-> Absent, blacklist |-> {"renovate-bot"}, locales |-> {"en", "fr"},
            CACHE_SECONDS |-> Absent]
    /\ g = Found([BaseRepo EXCEPT !.createdAt = ca, !.pushedAt = pa])

\* Requests that vary the cache lifetime asked for and the one the deployment
\* sets, for a repository that renders, one that does not, and a missing one.
CacheRequest(q, c, g) ==
  \E cs \in {Absent, Some(EmptyString), Some(Digits(0)), Some(Digits(100)),
              Some(Digits(FIVE_MINUTES)), Some(Digits(1000)), Some(Digits(TWELVE_HOURS)),
              Some(Digits(100000))},
     env \in {Absent, Some(EmptyString), Some(NotANumber), Some(Digits(0)),
              Some(Digits(10)), Some(Digits(ONE_DAY))} :
    /\ q = [NoQuery EXCEPT !.username = Some("alice"), !.repo = Some("convoychat"),
                            !.cache_seconds = cs]
    /\ c = [whitelist |-> Absent, blacklist |-> {"renovate-bot"}, locales |-> {"en", "fr"},
            CACHE_SECONDS |-> env]
    /\ g \in {Found(BaseRepo), Found([BaseRepo EXCEPT !.name = Absent]),
              Response(<<>>, Data(Absent))}

\* Requests whose response varies in its errors, its data and its repository.
FetchRequest(q, c, g) ==
  \E errors \in {<<>>, <<"Bad credentials">>, <<"">>, <<"Rate limited", "Timeout">>},
     data \in {NoData, Data(Absent),
               Data(Some(Node(BaseRepo, TRUE, Some(7)))),
               Data(Some(Node(BaseRepo, FALSE, Some(7)))),
               Data(Some(Node([BaseRepo EXCEPT !.createdAt = Ago(400 * SECONDS_PER_DAY)],
                              FALSE, Some(38000))))},
     rp \in {Absent, Some("convoychat")} :
    /\ q = [NoQuery EXCEPT !.username = Some("alice"), !.repo = rp]
    /\ c = [whitelist |-> Absent, blacklist |-> {"renovate-bot"}, locales |-> {"en", "fr"},
            CACHE_SECONDS |-> Absent]
    /\ g = Response(errors, data)

\* Requests that ask for an animation.
AnimationRequest(q, c, g) ==
  \E as \in AnimationStyles,
     da \in {Absent, Some("true"), Some("false")} :
    /\ q = [NoQuery EXCEPT !.username = Some("alice"), !.repo = Some("convoychat"),
                            !.animation_style = as, !.disable_animations = da]
    /\ c = [whitelist |-> Absent, blacklist |-> {"renovate-bot"}, locales |-> {"en", "fr"},
            CACHE_SECONDS |-> Absent]
    /\ g = Found(BaseRepo)

Responses ==
  {Found(BaseRepo), Found([BaseRepo EXCEPT !.name = Absent]), Response(<<>>, Data(Absent))}

InitCall ==
  /\ pc = "call"
  /\ \/ LayoutCall(repo, options, seed)
     \/ RowCall(repo, options, seed)
     \/ TitleCall(repo, options, seed)
     \/ AnimationCall(repo, options, seed)
     \/ AgeCall(repo, options, seed)
     \/ SparseCall(repo, options, seed)
     \/ GeometryCall(repo, options, seed)
  /\ query = NoQuery
  /\ config = [whitelist |-> Absent, blacklist |-> {}, locales |-> {}, CACHE_SECONDS |-> Absent]
  /\ github = Response(<<>>, NoData)
  /\ res = NoResponse
  /\ now = Now0
  /\ out = NoOutput
  /\ calls = NoCalls

InitRequest ==
  /\ pc = "request"
  /\ \/ (query \in Requests /\ config \in Configs /\ github \in Responses)
     \/ AgeRequest(query, config, github)
     \/ CacheRequest(query, config, github)
     \/ FetchRequest(query, config, github)
     \/ AnimationRequest(query, config, github)
  /\ res = NoResponse
  /\ repo = NoRepo
  /\ options = NoOptions
  /\ now = Now0
  /\ seed = 0
  /\ out = NoOutput
  /\ calls = NoCalls

Init == InitCall \/ InitRequest

Spec == Init /\ [][Next]_vars

----------------------------------------------------------------------------
(* Properties *)

\* renderRepoCard was called and returned a card.
Rendered == out.called /\ ~out.threw

\* Both the title and the text are hidden: stats_only, or hide_title and
\* hide_text together.
BothHidden ==
  Truthy(options.stats_only) \/ (Truthy(options.hide_title) /\ Truthy(options.hide_text))

AnimationsOff ==
  Truthy(options.disable_animations) \/ OrDefault(options.animation_style, "none") = "none"

NoLayerNoKeyframes ==
  /\ ~out.body.animation.layer
  /\ out.body.animation.shapes = <<>>
  /\ out.card.css.animation.keyframes = {}
  /\ out.card.css.animation.rules = {}

\* C1: outside the compact layout the card height is 110 when no description
\* is shown, 110 + 10*L for a description of L = 1 line and 120 + 10*L for
\* L > 1 lines; a description that wraps to 3 lines with
\* description_lines_count unset gives 150.
C1_HeightOutsideCompact ==
  (Rendered /\ ~BothHidden) =>
    LET L == out.descriptionLinesCount IN
    /\ out.body.description = Absent => out.card.height = 110
    /\ (out.body.description # Absent /\ L = 1) => out.card.height = 110 + 10 * L
    /\ (out.body.description # Absent /\ L > 1) => out.card.height = 120 + 10 * L
    /\ out.body.description # Absent => L >= 1
    /\ (options.description_lines_count = Absent /\ out.linesWrapped = 3)
         => out.card.height = 150

C1_Witness ==
  /\ Rendered /\ ~BothHidden
  /\ options.description_lines_count = Absent
  /\ out.body.description # Absent
  /\ Len(Val(out.body.description)) = 3
  /\ out.card.height = 150

\* C2 as stated: in the compact layout the height given to the card is
\* 24 + (16 + 8) = 48.
C2_CardGiven48 ==
  (Rendered /\ BothHidden) => out.card.height = 48

\* C2 as amended: in the compact layout the layout height is 48 and the card
\* is constructed with 48 + 30 = 78, whatever the description,
\* description_lines_count, hide_border and the animation options are.
C2_CompactHeight ==
  (Rendered /\ BothHidden) => (out.height = 48 /\ out.card.height = 78)

C2_Witness ==
  /\ Rendered /\ BothHidden
  /\ options.hide_border = Some(TRUE)
  /\ options.description_lines_count = Some([kind |-> "number", val |-> 3])
  /\ repo.description = Some(Plain(MaxWords))
  /\ options.animation_style = Some("bubbles")
  /\ out.card.height = 78

\* C3: with stats_only the composer hides the card title and emits neither a
\* wave title nor a description block, whatever the other options are; and the
\* pin handler passes hide_title and hide_text as true whenever stats_only
\* parses to true.
C3_StatsOnlyHidesTitleAndText ==
  /\ (Rendered /\ Truthy(options.stats_only)) =>
       /\ out.card.hideTitle
       /\ out.body.customWaveTitle = Absent
       /\ out.body.description = Absent
  /\ (pc = "responded" /\ out.called /\ parseBoolean(query.stats_only) = Some(TRUE)) =>
       /\ options.hide_title = Some(TRUE)
       /\ options.hide_text = Some(TRUE)
       /\ options.stats_only = Some(TRUE)

C3_Witness ==
  /\ pc = "responded" /\ Rendered
  /\ query.stats_only = Some("TRUE")
  /\ query.hide_title = Some("false")
  /\ options.hide_title = Some(TRUE)
  /\ out.card.hideTitle
  /\ out.body.description = Absent

\* C4: with disable_animations set or animation_style "none" the composer adds
\* no animation layer, no generator style rules, no wave title and no rule
\* hiding the default title, whatever the wave options are.
C4_NoAnimationLeak ==
  (Rendered /\ AnimationsOff) =>
    /\ NoLayerNoKeyframes
    /\ out.body.customWaveTitle = Absent
    /\ ~out.card.css.hideDefaultTitle

C4_Witness ==
  /\ Rendered
  /\ options.disable_animations = Some(TRUE)
  /\ options.animation_style = Some("bubbles")
  /\ options.color_morph = Some(TRUE)
  /\ options.wave_speed = Some(4)
  /\ ~shouldHideTitle(options)

\* C5: with animation_style "none" (the default) the card has no animation
\* layer and no keyframes from the generator, and the composer switches the
\* base card's built-in animations off.
C5_NoneSwitchesEverythingOff ==
  (Rendered /\ OrDefault(options.animation_style, "none") = "none") =>
    /\ NoLayerNoKeyframes
    /\ out.card.animationsDisabled

\* C6: for a style name outside the five, getAnimationStyle returns the empty
\* style sheet and markup, and renderRepoCard returns what it returns for
\* animation_style "none" with every other input equal.
FiveStyles == {"bubbles", "embers", "radiant", "circuit", "sparks"}
C6_UnknownStyleIsNone ==
  (Rendered /\ OrDefault(options.animation_style, "none") \notin FiveStyles) =>
    /\ getAnimationStyle(OrDefault(options.animation_style, "none"), CARD_WIDTH,
                         out.card.height, waveParams(options), seed) = NoAnimation
    /\ out = renderRepoCard(repo, [options EXCEPT !.animation_style = Some("none")],
                            now, seed)

C6_Witness ==
  /\ Rendered
  /\ options.animation_style = Some("fireworks")
  /\ ~Truthy(options.disable_animations)
  /\ ~out.body.animation.layer

\* C7: the stat row is, in this order, language, stars, forks, issues, PRs,
\* age; stars and forks are always there, language iff the record has a
\* primary language, issues iff show_issues and more than 0 open issues, PRs
\* iff show_prs and more than 0 open PRs, age iff show_age and a non-empty age
\* label; the widths have the length and the order of the items.
RowOrder == <<"primary-lang", "stargazers", "forkcount", "issues", "prs", "age">>
RowPresent(id) ==
  CASE id = "primary-lang" -> repo.primaryLanguage # Absent
    [] id = "issues" -> Truthy(options.show_issues) /\ OrDefault(repo.openIssuesCount, 0) > 0
    [] id = "prs" -> Truthy(options.show_prs) /\ OrDefault(repo.openPrsCount, 0) > 0
    [] id = "age" -> Truthy(options.show_age)
                       /\ ~IsEmptyLabel(formatAge(ageIso(repo, options), now))
    [] OTHER -> TRUE
C7_StatRowOrder ==
  Rendered =>
    LET items == out.body.statRow.items
        sizes == out.body.statRow.sizes
    IN /\ [i \in 1..Len(items) |-> items[i].testid] = SelectSeq(RowOrder, RowPresent)
       /\ Len(sizes) = Len(items)
       /\ \A i \in 1..Len(items) : sizes[i].measured = items[i].label

C7_Witness ==
  /\ Rendered
  /\ Len(out.body.statRow.items) = 6
  /\ out.body.statRow.items[4].testid = "issues"
  /\ out.body.statRow.sizes[4].measured = kFormatter(repo.openIssuesCount)

\* C8: the card shows at most one badge: the template badge iff isTemplate,
\* the archived badge iff isArchived and not isTemplate, none when both are
\* false.
C8_OneBadge ==
  Rendered =>
    /\ Truthy(repo.isTemplate) <=> out.body.badge = Some(getBadgeSVG("repocard.template"))
    /\ (Truthy(repo.isArchived) /\ ~Truthy(repo.isTemplate))
         <=> out.body.badge = Some(getBadgeSVG("repocard.archived"))
    /\ (~Truthy(repo.isArchived) /\ ~Truthy(repo.isTemplate)) <=> out.body.badge = Absent

C8_Witness ==
  /\ Rendered
  /\ repo.isArchived = Some(TRUE)
  /\ repo.isTemplate = Some(TRUE)
  /\ out.body.badge = Some(getBadgeSVG("repocard.template"))

\* C9: the displayed header is nameWithOwner under show_owner and name
\* otherwise, cut to its first 35 characters followed by "..." when it is
\* longer than 35 and unchanged otherwise, so never longer than 38; the bubbles
\* wave title spells the same truncated header, character by character.
C9_HeaderTruncation ==
  Rendered =>
    LET h == Val(IF Truthy(options.show_owner) THEN repo.nameWithOwner ELSE repo.name)
        shown == IF Len(h) > 35 THEN SubSeq(h, 1, 35) \o <<".", ".", ".">> ELSE h
    IN /\ out.card.defaultTitle = shown
       /\ Len(out.card.defaultTitle) <= 38
       /\ out.body.customWaveTitle # Absent =>
            LET text == Val(out.body.customWaveTitle).text
            IN /\ Len(text) = Len(shown)
               /\ \A k \in 1..Len(text) :
                    text[k].ch = IF shown[k] = " " THEN "nbsp" ELSE shown[k]

C9_Witness ==
  /\ Rendered
  /\ Truthy(options.show_owner)
  /\ Len(Val(repo.nameWithOwner)) > 35
  /\ out.body.customWaveTitle # Absent
  /\ Len(Val(out.body.customWaveTitle).text) = 38
  /\ Len(out.card.defaultTitle) = 38

\* C10: every piece of record-derived text renderRepoCard embeds, each
\* description line and each character of the header in the wave title, is
\* entity-escaped: no raw "<", ">" or "&" from the record reaches the markup.
RawMarkup == {"<", ">", "&"}
C10_AllRecordTextEscaped ==
  Rendered =>
    /\ out.body.description # Absent =>
         \A i \in 1..Len(Val(out.body.description)) :
           \A w \in 1..Len(Val(out.body.description)[i].text.words) :
             Val(out.body.description)[i].text.words[w].c \notin RawMarkup
    /\ out.body.customWaveTitle # Absent =>
         \A k \in 1..Len(Val(out.body.customWaveTitle).text) :
           Val(out.body.customWaveTitle).text[k].ch \notin RawMarkup

\* The age badges of the stat row, and the timestamp age_metric selects.
AgeBadges ==
  {i \in 1..Len(out.body.statRow.items) : out.body.statRow.items[i].testid = "age"}
AgeLabel == out.body.statRow.items[CHOOSE i \in AgeBadges : TRUE].label
AgeShown(label) == AgeBadges # {} /\ AgeLabel = label
SelectedStamp == ageIso(repo, options)
\* max(0, floor((now - then) / 1000)) for a timestamp a Date can parse.
ElapsedSeconds(then) == Max(0, (now.s - then.s) + ((now.ms - then.ms) \div 1000))
AgeUnits ==
  << [unit |-> "y", size |-> 365 * 24 * 3600], [unit |-> "mo", size |-> 30 * 24 * 3600],
     [unit |-> "d", size |-> 24 * 3600], [unit |-> "h", size |-> 3600],
     [unit |-> "m", size |-> 60], [unit |-> "s", size |-> 1] >>

\* C11: for elapsed whole seconds s = max(0, floor((now - then) / 1000)) the
\* age label is the count of the largest unit whose whole count is at least 1,
\* tried in the order years (365 days), months (30 days), days, hours,
\* minutes, and otherwise the seconds; 400 days give "1y" and a timestamp in
\* the future gives "0s".
C11_LargestWholeUnit ==
  (Rendered /\ Truthy(options.show_age) /\ SelectedStamp # Absent
     /\ Val(SelectedStamp).valid) =>
    LET then == Val(SelectedStamp)
        sec == ElapsedSeconds(then)
    IN /\ AgeBadges # {}
       /\ \E k \in 1..Len(AgeUnits) :
            /\ AgeLabel = Label("age", sec \div AgeUnits[k].size, 0, AgeUnits[k].unit)
            /\ k < Len(AgeUnits) => sec \div AgeUnits[k].size >= 1
            /\ \A j \in 1..(k - 1) : sec \div AgeUnits[j].size = 0
       /\ now.s - then.s = 400 * 24 * 3600 => AgeLabel = Label("age", 1, 0, "y")
       /\ now.s < then.s => AgeLabel = Label("age", 0, 0, "s")

C11_Witness ==
  /\ Rendered
  /\ Truthy(options.show_age)
  /\ SelectedStamp = Ago(400 * SECONDS_PER_DAY)
  /\ AgeShown(Label("age", 1, 0, "y"))

\* C12: the age badge is computed from createdAt under age_metric "created",
\* from pushedAt under "pushed", and under "first" (the default) from the
\* first-commit date, falling back to createdAt or pushedAt when that date is
\* absent, so a record with either timestamp has an age label by default.
FirstWithFallback ==
  IF repo.firstCommitDate # Absent THEN repo.firstCommitDate
  ELSE IF repo.createdAt # Absent THEN repo.createdAt
  ELSE repo.pushedAt
C12_AgeTimestampSelection ==
  (Rendered /\ Truthy(options.show_age)) =>
    LET metric == OrDefault(options.age_metric, "first")
        expected == CASE metric = "created" -> repo.createdAt
                      [] metric = "pushed" -> repo.pushedAt
                      [] OTHER -> FirstWithFallback
    IN (metric \in {"created", "pushed", "first"} /\ expected # Absent)
         => AgeShown(formatAge(expected, now))

\* C13: when the timestamp age_metric selects is missing or cannot be resolved
\* to a date, the stat row has no age badge even under show_age.
C13_NoBadgeWithoutDate ==
  (Rendered /\ Truthy(options.show_age)
     /\ (SelectedStamp = Absent \/ ~Val(SelectedStamp).valid))
    => AgeBadges = {}

\* C14: renderRepoCard returns a card and never raises, for every sparse record
\* and every options bag, show_owner without an owner-qualified name included;
\* missing star and fork counts are rendered as zero.
C14_NeverRaises ==
  out.called =>
    /\ ~out.threw
    /\ \A i \in 1..Len(out.body.statRow.items) :
         LET item == out.body.statRow.items[i] IN
         /\ (item.testid = "stargazers" /\ repo.starCount = Absent)
              => item.label = Label("count", 0, 0, "")
         /\ (item.testid = "forkcount" /\ repo.forkCount = Absent)
              => item.label = Label("count", 0, 0, "")

\* What the caller supplied as description_lines_count.
LinesAsked == Val(options.description_lines_count).val

\* C15 as stated: the maximum handed to the wrapper is description_lines_count
\* clamped into 1..3 for every supplied value, 0 and negative values giving 1,
\* and 3 when the option is not supplied.
C15_EverySuppliedValueClamped ==
  Rendered =>
    IF options.description_lines_count = Absent
    THEN descriptionMaxLines(options) = 3
    ELSE descriptionMaxLines(options) =
           (IF LinesAsked < 1 THEN 1 ELSE IF LinesAsked > 3 THEN 3 ELSE LinesAsked)

\* C15 as amended: the maximum is description_lines_count clamped into 1..3
\* for every supplied value other than the number 0 (negative values give 1,
\* values above 3 give 3, the string "0" gives 1); it is 3 when the option is
\* not supplied or is the number 0; never more than 3 lines are emitted.
C15_MaxLinesClamped ==
  Rendered =>
    /\ IF options.description_lines_count = Absent
          \/ (Val(options.description_lines_count).kind = "number" /\ LinesAsked = 0)
       THEN descriptionMaxLines(options) = 3
       ELSE descriptionMaxLines(options) =
              (IF LinesAsked < 1 THEN 1 ELSE IF LinesAsked > 3 THEN 3 ELSE LinesAsked)
    /\ out.linesWrapped <= descriptionMaxLines(options)
    /\ out.linesWrapped <= 3
    /\ out.body.description # Absent => Len(Val(out.body.description)) <= 3

C15_Witness ==
  /\ Rendered
  /\ options.description_lines_count = Some([kind |-> "number", val |-> 0])
  /\ repo.description = Some(Plain(MaxWords))
  /\ out.body.description # Absent
  /\ Len(Val(out.body.description)) = 3

\* The number of shapes of a class in the animation layer, and the strokes
\* inside them.
ShapesOf(cls) ==
  {k \in 1..Len(out.body.animation.shapes) : out.body.animation.shapes[k].cls = cls}
CountOf(cls) == Cardinality(ShapesOf(cls))
PartsOf(cls, n) == \A k \in ShapesOf(cls) : out.body.animation.shapes[k].parts = n
CircuitEdges ==
  {"circuit-glow-top", "circuit-glow-right", "circuit-glow-bottom", "circuit-glow-left"}

\* C16: the number of shapes depends on the style name only: bubbles gives 8
\* bubbles, 2 jellyfish of 6 tentacles each and 2 starfish; embers 12 circles;
\* radiant 16 rays and 1 core; circuit 6 dots and 4 edge strokes; sparks 10
\* glyphs of 4 lines each, whatever the card size, tuning and random draws.
C16_ShapeCounts ==
  (Rendered /\ ~Truthy(options.disable_animations)) =>
    LET style == OrDefault(options.animation_style, "none")
        total == Len(out.body.animation.shapes)
    IN /\ style = "bubbles" =>
            /\ CountOf("bubble") = 8 /\ CountOf("jellyfish") = 2 /\ CountOf("starfish") = 2
            /\ PartsOf("jellyfish", 6) /\ total = 12
       /\ style = "embers" => (CountOf("ember") = 12 /\ total = 12)
       /\ style = "radiant" => (CountOf("ray") = 16 /\ CountOf("radiant-core") = 1 /\ total = 17)
       /\ style = "circuit" =>
            /\ CountOf("circuit-dot") = 6 /\ total = 10
            /\ \A e \in CircuitEdges : CountOf(e) = 1
       /\ style = "sparks" => (CountOf("spark") = 10 /\ PartsOf("spark", 4) /\ total = 10)

C16_Witness ==
  /\ Rendered
  /\ options.animation_style = Some("embers")
  /\ ~Truthy(options.disable_animations)
  /\ out.card.height = 110
  /\ seed # 0
  /\ CountOf("ember") = 12

\* C17: the embers and sparks generators draw from an injectable source, so a
\* second call with the same width, height and colours and the same source
\* returns what the first call returned.
C17_SameInputsSameOutput ==
  (Rendered /\ hasAnimation(options)
     /\ OrDefault(options.animation_style, "none") \in {"embers", "sparks"}) =>
    animationData(repo, options, seed).svg = out.body.animation

\* What the handler decides before the fetch.
Rejection(message, secondaryMessage) ==
  /\ res.sent = << renderError(message, secondaryMessage) >>
  /\ calls = NoCalls
UserListed(list) == query.username # Absent /\ Val(query.username) \in list
LocaleMissing ==
  /\ query.locale # Absent
  /\ query.locale # Some("")
  /\ Val(query.locale) \notin config.locales

\* C18: every invocation of the pin handler sets Content-Type to image/svg+xml
\* before it sends anything and sends exactly one body, on every path.
C18_OneBodyAfterContentType ==
  /\ Len(res.sent) <= 1
  /\ Len(res.sent) = 1 => res.contentType = Some("image/svg+xml")
  /\ pc = "fetching" => (res.sent = <<>> /\ res.contentType = Some("image/svg+xml"))
  /\ pc = "responded" => Len(res.sent) = 1

C18_Witness ==
  /\ pc = "responded"
  /\ out.called /\ out.threw
  /\ Len(res.sent) = 1
  /\ res.sent[1].kind = "error"
  /\ res.contentType = Some("image/svg+xml")

\* C19: the handler rejects before any fetch, in this order: a username that
\* is not in the whitelist when there is one, a blacklisted username when
\* there is no whitelist, a locale that is not available; each sends its error
\* card and never calls fetchRepo; with a whitelist the blacklist is not
\* consulted.
C19_RejectionOrder ==
  pc = "responded" =>
    LET noWhite == config.whitelist # Absent /\ ~UserListed(Val(config.whitelist))
        black == config.whitelist = Absent /\ UserListed(config.blacklist)
    IN /\ noWhite => Rejection("This username is not whitelisted",
                               "Please deploy your own instance")
       /\ (~noWhite /\ black) => Rejection("This username is blacklisted",
                                           "Please deploy your own instance")
       /\ (~noWhite /\ ~black /\ LocaleMissing)
            => Rejection("Something went wrong", "Language not found")
       /\ (~noWhite /\ ~black /\ ~LocaleMissing) => calls.fetchRepo = 1

C19_Witness ==
  /\ pc = "responded"
  /\ config.whitelist = Absent
  /\ query.username = Some("renovate-bot")
  /\ query.locale = Some("asdf")
  /\ Rejection("This username is blacklisted", "Please deploy your own instance")

\* C20: fetchRepo checks its parameters before any request: with username and
\* repo missing it fails naming both, with one missing it names that one, and
\* the retryer is not invoked; the handler sends an error card with the
\* message and the URL example.
MissingParamsCard(names) ==
  res.sent = << renderError(names, "/api/pin?username=USERNAME&amp;repo=REPO_NAME") >>
C20_ParamsCheckedBeforeRequest ==
  (pc \in {"fetching", "responded"} /\ calls.fetchRepo = 1) =>
    LET noUser == query.username \in {Absent, Some("")}
        noRepo == query.repo \in {Absent, Some("")}
    IN /\ (noUser \/ noRepo) => calls.retryer = 0
       /\ (~noUser /\ ~noRepo) => calls.retryer = 1
       /\ pc = "responded" =>
            /\ (noUser /\ noRepo) => MissingParamsCard(
                 "Missing params \"username\", \"repo\" make sure you pass the parameters in URL")
            /\ (noUser /\ ~noRepo) => MissingParamsCard(
                 "Missing params \"username\" make sure you pass the parameters in URL")
            /\ (~noUser /\ noRepo) => MissingParamsCard(
                 "Missing params \"repo\" make sure you pass the parameters in URL")

C20_Witness ==
  /\ pc = "responded"
  /\ query.username = Absent
  /\ query.repo = Absent
  /\ calls = [fetchRepo |-> 1, retryer |-> 0]
  /\ res.cacheControl = Some(errorCacheControl)
  /\ MissingParamsCard(
       "Missing params \"username\", \"repo\" make sure you pass the parameters in URL")

\* The response is a repo card: the fetch and the rendering both succeeded.
CardSent == pc = "responded" /\ res.sent[1].kind = "card"
\* The response is an error card.
ErrorSent == pc = "responded" /\ res.sent[1].kind = "error"

\* The cache_seconds of the query as a number, TWELVE_HOURS when it is absent
\* or empty, and that number brought into [FIVE_MINUTES, TWELVE_HOURS].
AskedSeconds ==
  IF query.cache_seconds = Absent \/ Val(query.cache_seconds).kind = "empty"
  THEN TWELVE_HOURS ELSE Val(query.cache_seconds).val
ClampedSeconds ==
  IF AskedSeconds < FIVE_MINUTES THEN FIVE_MINUTES
  ELSE IF AskedSeconds > TWELVE_HOURS THEN TWELVE_HOURS ELSE AskedSeconds
\* The deployment sets CACHE_SECONDS to an integer other than 0.
EnvSeconds ==
  IF config.CACHE_SECONDS # Absent /\ Val(config.CACHE_SECONDS).kind = "digits"
     /\ Val(config.CACHE_SECONDS).val # 0
  THEN Some(Val(config.CACHE_SECONDS).val) ELSE Absent

\* C21 as stated: on a successful fetch Cache-Control is max-age=N, s-maxage=N
\* with N the cache_seconds of the query clamped into [FIVE_MINUTES,
\* TWELVE_HOURS], TWELVE_HOURS when absent, so N lies in that range for every
\* request.
C21_AlwaysWithinRange ==
  CardSent =>
    /\ res.cacheControl = Some(CacheControl(ClampedSeconds, ClampedSeconds, Absent))
    /\ Val(res.cacheControl).maxAge >= FIVE_MINUTES
    /\ Val(res.cacheControl).maxAge <= TWELVE_HOURS

\* C21, amended: on a successful fetch Cache-Control is max-age=N, s-maxage=N
\* and nothing else; N is the CACHE_SECONDS of the deployment when that is set
\* to an integer other than 0, and otherwise the cache_seconds of the query
\* clamped into [FIVE_MINUTES, TWELVE_HOURS], TWELVE_HOURS when absent or
\* empty; without the deployment's value N lies within that range.
C21_ClampedUnlessDeploymentSets ==
  CardSent =>
    LET n == IF EnvSeconds # Absent THEN Val(EnvSeconds) ELSE ClampedSeconds IN
    /\ res.cacheControl = Some(CacheControl(n, n, Absent))
    /\ EnvSeconds = Absent => (n >= FIVE_MINUTES /\ n <= TWELVE_HOURS)

C21_Witness ==
  /\ CardSent
  /\ query.cache_seconds = Some(Digits(100))
  /\ config.CACHE_SECONDS = Some(NotANumber)
  /\ res.cacheControl = Some(CacheControl(FIVE_MINUTES, FIVE_MINUTES, Absent))

\* The request went out: fetchRepo passed its parameter checks and the handler
\* has responded.
Requested == pc = "responded" /\ calls.retryer = 1
\* The response of GitHub has data whose repository is null or private.
MissingOrPrivate ==
  /\ github.data # Absent
  /\ \/ Val(github.data).repository = Absent
     \/ Val(Val(github.data).repository).isPrivate
ErrorCardOf(message) == res.sent = << renderError(message, "") >>

C30_ResponseCheckedInOrder ==
  Requested =>
    IF github.errors # <<>>
    THEN ErrorCardOf(IF github.errors[1] = "" THEN "GitHub GraphQL error"
                     ELSE github.errors[1])
    ELSE IF github.data = Absent THEN ErrorCardOf("Invalid response from GitHub API")
    ELSE IF MissingOrPrivate THEN ErrorCardOf("Repository Not found")
    ELSE LET node == Val(Val(github.data).repository) IN
         /\ repo.starCount = node.stargazers.totalCount
         /\ repo.firstCommitDate = node.fields.createdAt
         /\ [repo EXCEPT !.starCount = Absent, !.firstCommitDate = Absent] = node.fields

C30_Witness ==
  /\ Requested
  /\ github.errors = <<"Rate limited", "Timeout">>
  /\ github.data # Absent
  /\ ~MissingOrPrivate
  /\ ErrorCardOf("Rate limited")
  /\ ~out.called

\* C23: a request whose animation_style is one of the five styles, with
\* disable_animations not true, is answered by a card rendered with that
\* style, the handler passing both parameters on to renderRepoCard; with
\* disable_animations true the card has no animation.
C23_RequestedStyleRendered ==
  CardSent =>
    LET style == OrDefault(query.animation_style, "none")
        disabled == parseBoolean(query.disable_animations) = Some(TRUE)
    IN /\ (style \in FiveStyles /\ ~disabled) =>
            /\ options.animation_style = Some(style)
            /\ out.body.animation.layer
            /\ out.body.animation.shapes # <<>>
       /\ disabled => (Truthy(options.disable_animations) /\ NoLayerNoKeyframes)

\* C27: every response that is an error card carries the error cache policy
\* as its final Cache-Control (max-age of half ERROR_CACHE_SECONDS, s-maxage
\* of ERROR_CACHE_SECONDS, stale-while-revalidate of ONE_DAY), and never the
\* success policy; the rejections by the access lists and by the locale are
\* among those responses.
C27_ErrorCardsCarryErrorPolicy ==
  ErrorSent =>
    res.cacheControl =
      Some(CacheControl(ERROR_CACHE_SECONDS \div 2, ERROR_CACHE_SECONDS, Some(ONE_DAY)))

\* The description lines emitted in the description block.
EmittedLines == IF out.body.description = Absent THEN 0 ELSE Len(Val(out.body.description))

\* C24: the line count the height formula uses is the number of description
\* lines the wrapping produced and the description block emits, whether
\* description_lines_count is set or not: the height outside the compact
\* layout is 110 without lines, 120 with one line and 120 plus 10 per line with
\* more, so a one-line description never gets the height of a three-line one.
C24_HeightFromEmittedLines ==
  (Rendered /\ ~shouldHideText(options)) =>
    /\ out.descriptionLinesCount = out.linesWrapped
    /\ out.descriptionLinesCount = EmittedLines
    /\ out.height = (IF EmittedLines > 1 THEN 120 ELSE 110) + 10 * EmittedLines

WaveCase ==
  /\ Rendered
  /\ options.animation_style = Some("bubbles")
  /\ ~Truthy(options.disable_animations)
  /\ ~Truthy(options.stats_only) /\ ~Truthy(options.hide_title)
\* The elements of the output whose data-testid is "card-title": the Card's
\* own title group and the wave title of the body.
CardTitleElements ==
  (IF renderTitle(out.card) = Absent THEN 0 ELSE 1)
  + (IF out.body.customWaveTitle = Absent THEN 0 ELSE 1)
\* The wave title has one span per character of the truncated header, the
\* k-th delayed by (k - 1) times wave_delay (in hundredths of a second, 5 by
\* default) and with the color-morph class iff color_morph is set.
WaveSpans ==
  /\ out.body.customWaveTitle # Absent
  /\ LET text == Val(out.body.customWaveTitle).text
         delay == IF options.wave_delay = Absent THEN 5 ELSE Val(options.wave_delay)
     IN /\ Val(out.body.customWaveTitle).testid = "card-title"
        /\ Len(text) = Len(out.card.defaultTitle)
        /\ \A k \in 1..Len(text) :
             /\ text[k].delay = (k - 1) * delay
             /\ "wave-char" \in text[k].cls
             /\ "wave-char-morph" \in text[k].cls <=> Truthy(options.color_morph)

\* C25 as stated: with the bubbles style, animations not disabled and the
\* title visible, the wave title replaces the default title: the output has
\* exactly one card-title element, the wave variant, with one span per
\* character of the truncated header, delayed by its index times wave_delay,
\* with the color-morph class iff color_morph is set; in every other case the
\* output has no wave title.
C25_WaveTitleReplacesDefault ==
  Rendered =>
    /\ WaveCase => (WaveSpans /\ CardTitleElements = 1)
    /\ ~WaveCase => out.body.customWaveTitle = Absent

\* C25, amended: in that case the wave title is added beside the Card's
\* default title, which is still rendered and is hidden by the style rule for
\* card-title groups without a wave title, so the output has two card-title
\* elements; the spans, delays and classes are as stated, and in every other
\* case the output has no wave title and no such style rule.
C25_WaveTitleBesideHiddenDefault ==
  Rendered =>
    /\ WaveCase =>
         /\ WaveSpans
         /\ renderTitle(out.card) # Absent
         /\ out.card.css.hideDefaultTitle
         /\ CardTitleElements = 2
    /\ ~WaveCase =>
         /\ out.body.customWaveTitle = Absent
         /\ CardTitleElements <= 1
         /\ out.card.css.hideDefaultTitle =>
              (renderTitle(out.card) = Absent /\ options.animation_style = Some("bubbles"))

C25_Witness ==
  /\ WaveCase
  /\ Truthy(options.color_morph)
  /\ options.wave_delay = Some(10)
  /\ Len(Val(out.body.customWaveTitle).text) = 38
  /\ Val(out.body.customWaveTitle).text[38].delay = 370
  /\ CardTitleElements = 2

\* The times of a later invocation: at once, an hour later, 400 days later.
LaterCalls ==
  {[s |-> now.s + d, ms |-> now.ms] : d \in {0, SECONDS_PER_HOUR, 400 * SECONDS_PER_DAY}}

\* C26: renderRepoCard is a pure function of its arguments but for the random
\* coordinates of embers and sparks: with any other animation_style, show_age
\* included, a second invocation with the same record and options returns the
\* same output whenever it is made, and the first invocation has changed no
\* state the second one sees.
C26_PureButForEmbersAndSparks ==
  (Rendered /\ OrDefault(options.animation_style, "none") \notin {"embers", "sparks"}) =>
    \A t \in LaterCalls : renderRepoCard(repo, options, t, seed) = out

\* The coordinates of the shapes of the animation layer with the given class.
Placed(cls) == {out.body.animation.shapes[k].geo : k \in ShapesOf(cls)}

\* C29: at card width 400 and every height the card can have, every randomly
\* placed shape lies inside the card: an ember has x in [10, 390), y in
\* [0.2 * height, 0.8 * height) and radius in [1.5, 3.5); a spark has x in
\* [20, 380), y in [20, height - 20) and rotation in [0, 360).  x and radius
\* are in tenths, y in hundredths.
C29_RandomShapesInsideCard ==
  Rendered =>
    /\ out.card.width = 400
    /\ \A g \in Placed("ember") :
         /\ 100 <= g.x10 /\ g.x10 < 3900
         /\ 20 * out.card.height <= g.y100 /\ g.y100 < 80 * out.card.height
         /\ 15 <= g.size10 /\ g.size10 < 35
         /\ 0 <= g.y100 /\ g.y100 < 100 * out.card.height
    /\ \A g \in Placed("spark") :
         /\ 200 <= g.x10 /\ g.x10 < 3800
         /\ 2000 <= g.y100 /\ g.y100 < 100 * (out.card.height - 20)
         /\ 0 <= g.rot /\ g.rot < 360
    /\ (options.animation_style \in {Some("embers"), Some("sparks")}
        /\ ~Truthy(options.disable_animations)) =>
         Cardinality(ShapesOf("ember")) + Cardinality(ShapesOf("spark")) \in {10, 12}

C29_Witness ==
  /\ Rendered
  /\ out.card.height = 150
  /\ \E g \in Placed("spark") : g.x10 = 200 /\ g.rot > 0
  /\ \E g \in Placed("spark") : g.y100 >= 11000
  /\ \E g \in Placed("spark") : g.x10 >= 3400

====
